---- MODULE Spec2Model ----
(***************************************************************************)
(* Model of langflow's custom agent registry                               *)
(* (src/backend/langflow/interface/agents/custom.py): the CUSTOM_AGENTS    *)
(* table, the construction recipe of each agent class, and the run loop of *)
(* the executor a recipe returns.                                          *)
(***************************************************************************)
EXTENDS Integers, Sequences, FiniteSets, TLC

VARIABLES
    registry,      \* the CUSTOM_AGENTS table, as built at import time
    resolved,      \* outcome of the last lookup by kind
    cfg,           \* keyword configuration handed to the recipe
    result,        \* what initialize() gave back to the caller
    state,         \* Idle, Running, Succeeded, Failed, StoppedByLimit
    iterations,    \* loop counter of the running executor
    stub,          \* behaviour of the model stub bound to the run
    lastStep,      \* what the reasoning chain proposed in the latest step
    invoked,       \* tool run by the latest step ("none" when no tool ran)
    checkerCalls,  \* per query: calls of the query-checker chain
    answer,        \* final answer text of the run
    acallResult    \* what the patched acall of the AutoGPT object returned

vars == <<registry, resolved, cfg, result, state, iterations, stub, lastStep,
          invoked, checkerCalls, answer, acallResult>>

runVars == <<state, iterations, stub, lastStep, invoked, checkerCalls, answer>>

----------------------------------------------------------------------------
(* Bounds of the model.                                                    *)

NumToolNames == 2      \* distinct names a caller's tools are drawn from
MaxTools == 2          \* longest caller-supplied tool list
NumQueries == 2        \* distinct SQL queries the model stub may propose

(* Program constants.                                                      *)

SQL_MAX_ITERATIONS == 15      \* max_iterations=15
TOP_K == 10                   \* top_k=10
DEFAULT_MAX_ITERATIONS == 15  \* AgentExecutor.max_iterations default

----------------------------------------------------------------------------
(* Tools and configuration.                                                *)

CallerToolNames == {"tool_" \o ToString(i) : i \in 1..NumToolNames}

Queries == 1..NumQueries

RECURSIVE SeqsUpTo(_, _)
SeqsUpTo(S, n) ==
    IF n = 0 THEN {<<>>}
    ELSE LET shorter == SeqsUpTo(S, n - 1)
         IN  shorter \cup {Append(s, x) : s \in {t \in shorter : Len(t) = n - 1}, x \in S}

\* Non-empty tool lists a caller (or a toolkit's get_tools()) can hand over.
ToolLists == {s \in SeqsUpTo(CallerToolNames, MaxTools) : Len(s) >= 1}

\* {tool.name for tool in tools}
tool_names(tools) == {tools[i] : i \in 1..Len(tools)}

HasDuplicate(tools) == \E i, j \in 1..Len(tools) : i # j /\ tools[i] = tools[j]

\* AgentType: the closed enumeration of strategy names.
AgentType == {"zero-shot-react-description", "conversational-react-description"}

StrategyNames == AgentType \cup {"no-such-strategy"}

NoConfig ==
    [tools |-> <<>>, name |-> "", csvOk |-> TRUE, dbOk |-> TRUE, agent |-> ""]

\* Keyword configurations each class's initialize() is called with.
Configs(cls) ==
    CASE cls \in {"JsonAgent", "VectorStoreRouterAgent", "AutoGPTAgent"} ->
            {[NoConfig EXCEPT !.tools = t] : t \in ToolLists}
      [] cls = "CSVAgent" ->
            {[NoConfig EXCEPT !.csvOk = b] : b \in BOOLEAN}
      [] cls = "VectorStoreAgent" ->
            {[NoConfig EXCEPT !.name = n] : n \in CallerToolNames}
      [] cls = "SQLAgent" ->
            {[NoConfig EXCEPT !.dbOk = b] : b \in BOOLEAN}
      [] cls = "InitializeAgent" ->
            {[NoConfig EXCEPT !.tools = t, !.agent = a] :
                t \in ToolLists, a \in StrategyNames}
      [] OTHER -> {}

----------------------------------------------------------------------------
(* Results of construction.                                                *)

NoPrompt ==
    [prefix |-> "", tool_strings |-> <<>>, format_instructions |-> "",
     suffix |-> "", input_variables |-> <<>>, partial_variables |-> {}]

Blank ==
    [kind |-> "Unset", error |-> "", cls |-> "", tools |-> <<>>,
     allowed_tools |-> {}, prompt |-> NoPrompt, handle_parsing_errors |-> FALSE,
     max_iterations |-> 0, early_stopping_method |-> "",
     return_intermediate_steps |-> FALSE, output_keys |-> <<>>, acall |-> ""]

\* An exception leaves initialize(): nothing is returned.
Raise(exc) == [Blank EXCEPT !.kind = "Error", !.error = exc]

\* A function that falls off its end returns None.
ReturnsNone == [Blank EXCEPT !.kind = "None"]

\* Field defaults of the executor class the recipes instantiate.
DefaultOptions ==
    [handle_parsing_errors |-> FALSE, max_iterations |-> DEFAULT_MAX_ITERATIONS,
     early_stopping_method |-> "force", return_intermediate_steps |-> FALSE]

\* ZeroShotAgent.create_prompt: the template is prefix, one line per tool,
\* the format instructions over the tool names, suffix.
create_prompt(tools, prefix, suffix, format_instructions, input_variables) ==
    [prefix |-> prefix, tool_strings |-> tools,
     format_instructions |-> format_instructions, suffix |-> suffix,
     input_variables |-> input_variables, partial_variables |-> {}]

RECURSIVE Without(_, _)
Without(s, x) ==
    IF s = <<>> THEN <<>>
    ELSE IF Head(s) = x THEN Without(Tail(s), x)
    ELSE <<Head(s)>> \o Without(Tail(s), x)

\* prompt.partial(var=value): the variable is bound and no longer required.
partial(prompt, var, value) ==
    [prompt EXCEPT !.input_variables = Without(@, var),
                   !.partial_variables = @ \cup {<<var, value>>}]

\* A variant of the agent construction that forgets allowed_tools=tool_names:
\* the agent then carries no allow-list at all.
ZeroShotAgent_noallow(prompt, allowed_tools) ==
    [prompt |-> prompt, allowed_tools |-> {}, restricted |-> FALSE]

\* ZeroShotAgent(llm_chain=llm_chain, allowed_tools=tool_names): the agent
\* holds the chain over the prompt and the allow-list.
ZeroShotAgent(prompt, allowed_tools) ==
    [prompt |-> prompt, allowed_tools |-> allowed_tools, restricted |-> TRUE]

\* from_agent_and_tools: the executor's validator rejects an agent whose
\* allow-list is not the set of tool names; otherwise the executor is built.
from_agent_and_tools(cls, agent, tools, options) ==
    IF agent.restricted /\ agent.allowed_tools # tool_names(tools)
    THEN Raise("ValueError")
    ELSE [Blank EXCEPT !.kind = "AgentExecutor", !.cls = cls, !.tools = tools,
                       !.allowed_tools = agent.allowed_tools,
                       !.prompt = agent.prompt,
                       !.handle_parsing_errors = options.handle_parsing_errors,
                       !.max_iterations = options.max_iterations,
                       !.early_stopping_method = options.early_stopping_method,
                       !.return_intermediate_steps = options.return_intermediate_steps]

----------------------------------------------------------------------------
(* The recipes: one from_toolkit_and_llm / initialize per agent class.     *)

\* JsonAgent.from_toolkit_and_llm: the allow-list is the set of tool names;
\* the executor is built with verbose=True and nothing else.
JsonAgent_from_toolkit_and_llm(c) ==
    LET tools == c.tools
        names == tool_names(tools)
        prompt == create_prompt(tools, "JSON_PREFIX", "JSON_SUFFIX",
                                "FORMAT_INSTRUCTIONS", <<"input", "agent_scratchpad">>)
        agent == ZeroShotAgent(prompt, names)
    IN  from_agent_and_tools("JsonAgent", agent, tools, DefaultOptions)

\* What pd.read_csv does with the path: a table, or an exception.
read_csv(c) == IF c.csvOk THEN "df" ELSE "ParserError"

\* A variant of the recipe that swallows the load failure and goes on with an
\* empty table.
CSVAgent_from_toolkit_and_llm_swallow(c) ==
    LET tools == <<"python_repl_ast">>
        prompt == create_prompt(tools, "PANDAS_PREFIX", "PANDAS_SUFFIX",
                                "FORMAT_INSTRUCTIONS", <<"df", "input", "agent_scratchpad">>)
        agent == ZeroShotAgent(partial(prompt, "df", "df.head()"), tool_names(tools))
    IN  from_agent_and_tools("CSVAgent", agent, tools, DefaultOptions)

\* CSVAgent.from_toolkit_and_llm: load the table, wrap it in one tool, bind
\* the df variable to the preview of its head.
CSVAgent_from_toolkit_and_llm(c) ==
    IF read_csv(c) # "df"
    THEN Raise(read_csv(c))
    ELSE LET tools == <<"python_repl_ast">>
             prompt == create_prompt(tools, "PANDAS_PREFIX", "PANDAS_SUFFIX",
                                     "FORMAT_INSTRUCTIONS",
                                     <<"df", "input", "agent_scratchpad">>)
             partial_prompt == partial(prompt, "df", "df.head()")
             names == tool_names(tools)
             agent == ZeroShotAgent(partial_prompt, names)
         IN  from_agent_and_tools("CSVAgent", agent, tools, DefaultOptions)

\* VectorStoreToolkit.get_tools(): the store's QA tool and its with-sources twin.
VectorStoreToolkit_get_tools(name) == <<name, name \o "_with_sources">>

\* VectorStoreAgent.from_toolkit_and_llm
VectorStoreAgent_from_toolkit_and_llm(c) ==
    LET tools == VectorStoreToolkit_get_tools(c.name)
        prompt == create_prompt(tools, "VECTORSTORE_PREFIX", "SUFFIX",
                                "FORMAT_INSTRUCTIONS", <<"input", "agent_scratchpad">>)
        names == tool_names(tools)
        agent == ZeroShotAgent(prompt, names)
    IN  from_agent_and_tools("AgentExecutor", agent, tools,
                             [DefaultOptions EXCEPT !.handle_parsing_errors = TRUE])

\* A variant of the tool list that leaves the checker tool out.
SQLAgentTools_nochecker ==
    <<"query_sql_db", "schema_sql_db", "list_tables_sql_db">>

\* The four tools of the SQL recipe, in the order of the list literal.
SQLAgentTools ==
    <<"query_sql_db", "schema_sql_db", "list_tables_sql_db", "query_checker_sql_db">>

\* A variant of the options with a misspelt early-stop policy.
SQLAgentOptions_badpolicy ==
    [DefaultOptions EXCEPT !.max_iterations = SQL_MAX_ITERATIONS,
                           !.early_stopping_method = "stop",
                           !.handle_parsing_errors = TRUE]

\* Options the SQL recipe passes to the executor.
SQLAgentOptions ==
    [DefaultOptions EXCEPT !.max_iterations = SQL_MAX_ITERATIONS,
                           !.early_stopping_method = "force",
                           !.handle_parsing_errors = TRUE]

\* SQLAgent.from_toolkit_and_llm: open the database, build the checker chain
\* and the four tools, then the executor with the iteration cap.
SQLAgent_from_toolkit_and_llm(c) ==
    IF ~c.dbOk
    THEN Raise("OperationalError")
    ELSE LET tools == SQLAgentTools
             prefix == "SQL_PREFIX(" \o "sqlite" \o "," \o ToString(TOP_K) \o ")"
             prompt == create_prompt(tools, prefix, "SQL_SUFFIX",
                                     "FORMAT_INSTRUCTIONS",
                                     <<"input", "agent_scratchpad">>)
             names == tool_names(tools)
             agent == ZeroShotAgent(prompt, names)
         IN  from_agent_and_tools("AgentExecutor", agent, tools, SQLAgentOptions)

\* VectorStoreRouterAgent.from_toolkit_and_llm: a list is taken as is, a
\* toolkit gives one tool per named store.
VectorStoreRouterAgent_from_toolkit_and_llm(c) ==
    LET tools == c.tools
        prompt == create_prompt(tools, "VECTORSTORE_ROUTER_PREFIX", "SUFFIX",
                                "FORMAT_INSTRUCTIONS", <<"input", "agent_scratchpad">>)
        names == tool_names(tools)
        agent == ZeroShotAgent(prompt, names)
    IN  from_agent_and_tools("AgentExecutor", agent, tools,
                             [DefaultOptions EXCEPT !.handle_parsing_errors = TRUE])

\* InitializeAgent.initialize: AgentType(agent) raises ValueError for a name
\* outside the enumeration; initialize_agent builds the executor.
InitializeAgent_initialize(c) ==
    IF c.agent \notin AgentType
    THEN Raise("ValueError")
    ELSE LET prompt == create_prompt(c.tools, c.agent, "SUFFIX",
                                     "FORMAT_INSTRUCTIONS",
                                     <<"input", "agent_scratchpad">>)
             agent == [prompt |-> prompt, allowed_tools |-> tool_names(c.tools),
                       restricted |-> TRUE]
         IN  from_agent_and_tools("AgentExecutor", agent, c.tools,
                                  [DefaultOptions EXCEPT
                                      !.return_intermediate_steps = TRUE,
                                      !.handle_parsing_errors = TRUE])

\* A variant of AutoGPTAgent.initialize that forgets its return statement.
AutoGPTAgent_initialize_noreturn(c) == ReturnsNone

\* AutoGPTAgent.initialize: the AutoGPT object, with acall replaced and
\* output_keys set, is returned as is (it is no AgentExecutor).
AutoGPTAgent_initialize(c) ==
    [Blank EXCEPT !.kind = "AutoGPT", !.cls = "AutoGPT", !.tools = c.tools,
                  !.acall = "_acall", !.output_keys = <<"fred">>]

\* cls.initialize(**config) of each class of the table.
initialize(cls, c) ==
    CASE cls = "JsonAgent" -> JsonAgent_from_toolkit_and_llm(c)
      [] cls = "CSVAgent" -> CSVAgent_from_toolkit_and_llm(c)
      [] cls = "VectorStoreAgent" -> VectorStoreAgent_from_toolkit_and_llm(c)
      [] cls = "SQLAgent" -> SQLAgent_from_toolkit_and_llm(c)
      [] cls = "VectorStoreRouterAgent" -> VectorStoreRouterAgent_from_toolkit_and_llm(c)
      [] cls = "InitializeAgent" -> InitializeAgent_initialize(c)
      [] cls = "AutoGPTAgent" -> AutoGPTAgent_initialize(c)

\* Some step of the recipe's construction fails for this configuration.
ConstructionFails(cls, c) ==
    \/ cls = "CSVAgent" /\ ~c.csvOk
    \/ cls = "SQLAgent" /\ ~c.dbOk
    \/ cls = "InitializeAgent" /\ c.agent \notin AgentType

----------------------------------------------------------------------------
(* The registry.                                                           *)

\* A variant of function_name in which InitializeAgent reports its class name.
function_name_classname(cls) == cls

\* The function_name() static method of each class.
function_name(cls) ==
    CASE cls = "JsonAgent" -> "JsonAgent"
      [] cls = "CSVAgent" -> "CSVAgent"
      [] cls = "VectorStoreAgent" -> "VectorStoreAgent"
      [] cls = "SQLAgent" -> "SQLAgent"
      [] cls = "VectorStoreRouterAgent" -> "VectorStoreRouterAgent"
      [] cls = "InitializeAgent" -> "AgentInitializer"
      [] cls = "AutoGPTAgent" -> "AutoGPTAgent"

\* The CUSTOM_AGENTS literal, entry by entry.
CUSTOM_AGENTS ==
    << [key |-> "JsonAgent", cls |-> "JsonAgent"],
       [key |-> "CSVAgent", cls |-> "CSVAgent"],
       [key |-> "AgentInitializer", cls |-> "InitializeAgent"],
       [key |-> "VectorStoreAgent", cls |-> "VectorStoreAgent"],
       [key |-> "VectorStoreRouterAgent", cls |-> "VectorStoreRouterAgent"],
       [key |-> "SQLAgent", cls |-> "SQLAgent"],
       [key |-> "AutoGPTAgent", cls |-> "AutoGPTAgent"] >>

Keys(table) == {table[i].key : i \in 1..Len(table)}

\* Kind strings a caller may ask for: every key and one that is none.
Kinds == Keys(CUSTOM_AGENTS) \cup {"NoSuchAgent"}

\* Lookup by kind: the class registered under the key, or UnknownKindError.
resolve(table, kind) ==
    IF kind \in Keys(table)
    THEN [kind |-> "Recipe",
          cls |-> (CHOOSE e \in {table[i] : i \in 1..Len(table)} : e.key = kind).cls,
          key |-> kind]
    ELSE [kind |-> "Error", cls |-> "UnknownKindError", key |-> kind]

Unresolved == [kind |-> "Unset", cls |-> "", key |-> ""]

----------------------------------------------------------------------------
(* The run loop of an executor, and the patched acall of the AutoGPT       *)
(* object.                                                                 *)

NoStep == [kind |-> "none", tool |-> "", input |-> 0]

\* Names the reasoning chain may put in a step: the executor's tools, the
\* checker's name, and a name no tool has.
ProposableTools(r) ==
    tool_names(r.tools) \cup {"query_checker_sql_db", "no_such_tool"}

\* The input of a step: a query for the two tools that take one, free text
\* (left abstract) for any other name.
InputsFor(tool) ==
    IF tool \in {"query_sql_db", "query_checker_sql_db"} THEN Queries ELSE {0}

\* Tools whose call can raise: the SQL tools and the dataframe tool return
\* the error text as their observation instead.
MayThrow(tool) == tool \notin (tool_names(SQLAgentTools) \cup {"python_repl_ast"})

\* The text returned when the loop is stopped with early_stopping_method
\* "force".
ForcedStopAnswer == "Agent stopped due to iteration limit or time limit."

\* AutoGPTAgent._acall: the dictionary it returns, whatever the input.
_acall(chat_input) ==
    [intermediate_steps |-> << [index |-> 1, result |-> "fake data"] >>]

Terminal == {"Succeeded", "Failed", "StoppedByLimit"}

----------------------------------------------------------------------------
(* Actions.                                                                *)

TypeOK ==
    /\ state \in {"Idle", "Running"} \cup Terminal
    /\ iterations \in 0..(SQL_MAX_ITERATIONS + DEFAULT_MAX_ITERATIONS)
    /\ resolved.kind \in {"Unset", "Recipe", "Error"}
    /\ result.kind \in {"Unset", "Error", "None", "AgentExecutor", "AutoGPT"}
    /\ checkerCalls \in [Queries -> Nat]

Init ==
    /\ registry = CUSTOM_AGENTS
    /\ resolved = Unresolved
    /\ cfg = NoConfig
    /\ result = Blank
    /\ state = "Idle"
    /\ iterations = 0
    /\ stub = "any"
    /\ lastStep = NoStep
    /\ invoked = "none"
    /\ checkerCalls = [q \in Queries |-> 0]
    /\ answer = ""
    /\ acallResult = <<>>

\* The caller looks a kind up in the table.
Resolve(kind) ==
    /\ resolved.kind = "Unset"
    /\ resolved' = resolve(registry, kind)
    /\ UNCHANGED <<registry, cfg, result, acallResult>>
    /\ UNCHANGED runVars

\* The caller constructs: cls.initialize(**config).
Construct(c) ==
    /\ resolved.kind = "Recipe"
    /\ result.kind = "Unset"
    /\ cfg' = c
    /\ result' = initialize(resolved.cls, c)
    /\ UNCHANGED <<registry, resolved, acallResult>>
    /\ UNCHANGED runVars

\* run(input): Idle -> Running, bound to a model stub.
Run(s) ==
    /\ result.kind = "AgentExecutor"
    /\ state = "Idle"
    /\ state' = "Running"
    /\ stub' = s
    /\ iterations' = 0
    /\ UNCHANGED <<registry, resolved, cfg, result, acallResult>>
    /\ UNCHANGED <<lastStep, invoked, checkerCalls, answer>>

InLoop == state = "Running" /\ iterations < result.max_iterations

\* The chain emits a final answer.
StepFinal ==
    /\ InLoop
    /\ stub # "neverFinal"
    /\ state' = "Succeeded"
    /\ answer' = "final answer"
    /\ lastStep' = [kind |-> "final", tool |-> "", input |-> 0]
    /\ invoked' = "none"
    /\ UNCHANGED <<registry, resolved, cfg, result, acallResult>>
    /\ UNCHANGED <<iterations, stub, checkerCalls>>

\* The chain's output cannot be parsed: with handle_parsing_errors the error
\* text is fed back as the observation of a step, without it the exception
\* leaves run().
StepMalformed ==
    /\ InLoop
    /\ lastStep' = [kind |-> "malformed", tool |-> "", input |-> 0]
    /\ invoked' = "none"
    /\ IF result.handle_parsing_errors
       THEN /\ iterations' = iterations + 1
            /\ UNCHANGED <<state, answer>>
       ELSE /\ state' = "Failed"
            /\ answer' = "OutputParserException"
            /\ UNCHANGED iterations
    /\ UNCHANGED <<registry, resolved, cfg, result, acallResult>>
    /\ UNCHANGED <<stub, checkerCalls>>

\* What calling a tool does to the checker chain: only the checker tool
\* holds the chain and predicts with it, once per call; the run-query tool
\* holds the database alone.
ToolEffect(tool, q) ==
    checkerCalls' = IF tool = "query_checker_sql_db"
                    THEN [checkerCalls EXCEPT ![q] = @ + 1]
                    ELSE checkerCalls

\* The chain proposes a tool the executor has: the tool is called with the
\* input and its observation is fed back; a tool that raises ends the run.
StepTool(tool, q, throws) ==
    /\ InLoop
    /\ tool \in tool_names(result.tools)
    /\ throws => MayThrow(tool)
    /\ lastStep' = [kind |-> "tool", tool |-> tool, input |-> q]
    /\ invoked' = tool
    /\ IF throws
       THEN /\ state' = "Failed"
            /\ answer' = "ToolInvocationError"
            /\ UNCHANGED <<iterations, checkerCalls>>
       ELSE /\ iterations' = iterations + 1
            /\ ToolEffect(tool, q)
            /\ UNCHANGED <<state, answer>>
    /\ UNCHANGED <<registry, resolved, cfg, result, acallResult, stub>>

\* The chain proposes a name no tool of the executor has: no tool is called,
\* "<name> is not a valid tool, try another one." is the observation.
StepInvalidTool(tool, q) ==
    /\ InLoop
    /\ tool \notin tool_names(result.tools)
    /\ lastStep' = [kind |-> "tool", tool |-> tool, input |-> q]
    /\ invoked' = "none"
    /\ iterations' = iterations + 1
    /\ UNCHANGED <<registry, resolved, cfg, result, acallResult>>
    /\ UNCHANGED <<state, stub, checkerCalls, answer>>

\* The loop condition fails: the early-stop policy gives the result.
StopByLimit ==
    /\ state = "Running"
    /\ iterations >= result.max_iterations
    /\ IF result.early_stopping_method = "force"
       THEN state' = "StoppedByLimit" /\ answer' = ForcedStopAnswer
       ELSE IF result.early_stopping_method = "generate"
       THEN state' = "StoppedByLimit" /\ answer' = "final answer"
       ELSE state' = "Failed" /\ answer' = "ValueError"
    /\ UNCHANGED <<registry, resolved, cfg, result, acallResult>>
    /\ UNCHANGED <<iterations, stub, lastStep, invoked, checkerCalls>>

\* One step of the reasoning chain, whatever it proposes.
AgentStep ==
    \/ StepFinal
    \/ StepMalformed
    \/ \E t \in ProposableTools(result) :
          \E q \in InputsFor(t), b \in BOOLEAN : StepTool(t, q, b)
    \/ \E t \in ProposableTools(result) :
          \E q \in InputsFor(t) : StepInvalidTool(t, q)

\* The caller awaits the acall attribute of the AutoGPT object.
Acall(chat_input) ==
    /\ result.kind = "AutoGPT"
    /\ result.acall = "_acall"
    /\ acallResult = <<>>
    /\ acallResult' = <<_acall(chat_input)>>
    /\ UNCHANGED <<registry, resolved, cfg, result>>
    /\ UNCHANGED runVars

\* The caller drops what it holds and starts over.
Discard ==
    /\ resolved.kind # "Unset"
    /\ state # "Running"
    /\ resolved' = Unresolved
    /\ cfg' = NoConfig
    /\ result' = Blank
    /\ state' = "Idle"
    /\ iterations' = 0
    /\ stub' = "any"
    /\ lastStep' = NoStep
    /\ invoked' = "none"
    /\ checkerCalls' = [q \in Queries |-> 0]
    /\ answer' = ""
    /\ acallResult' = <<>>
    /\ UNCHANGED registry

Next ==
    \/ \E k \in Kinds : Resolve(k)
    \/ \E c \in Configs(resolved.cls) : Construct(c)
    \/ \E s \in {"any", "neverFinal"} : Run(s)
    \/ AgentStep
    \/ StopByLimit
    \/ \E i \in {"", "hello"} : Acall(i)
    \/ Discard

Spec == Init /\ [][Next]_vars

\* The loop is sequential and every model call and tool call returns: a run
\* that can take a step takes one.
FairSpec == Spec /\ WF_vars(AgentStep \/ StopByLimit)

----------------------------------------------------------------------------
(* Properties.                                                             *)

ListRecipes ==
    {"JsonAgent", "CSVAgent", "VectorStoreAgent", "VectorStoreRouterAgent", "SQLAgent"}

Constructed == resolved.kind = "Recipe" /\ result.kind # "Unset"

IsExecutor == result.kind = "AgentExecutor"

SQLExecutor == resolved.cls = "SQLAgent" /\ IsExecutor

\* C1: a tool list in which two tools share a name makes construction fail
\* with ToolNameCollisionError; no executor comes out of it.
C1_DuplicateNamesRejected ==
    (Constructed /\ resolved.cls \in ListRecipes /\ HasDuplicate(cfg.tools))
        => (result.kind = "Error" /\ result.error = "ToolNameCollisionError")

\* C2: every executor a recipe returns has handle_parsing_errors enabled, and
\* no run is in Failed because its latest step was malformed.
C2_ParsingErrorsHandled ==
    /\ IsExecutor => result.handle_parsing_errors
    /\ ~(state = "Failed" /\ lastStep.kind = "malformed")

C4_ResolveAndConstruct ==
    /\ resolved.kind # "Unset"
         => IF resolved.key \in Keys(registry)
            THEN resolved.kind = "Recipe"
            ELSE resolved.kind = "Error" /\ resolved.cls = "UnknownKindError"
    /\ resolved.kind = "Error" => result.kind = "Unset"
    /\ (Constructed /\ result.kind # "Error")
         => result.kind \in {"AgentExecutor", "AutoGPT"}

C4_Witness ==
    /\ resolved.kind = "Recipe"
    /\ resolved.key = "AutoGPTAgent"
    /\ result.kind = "AutoGPT"

\* C5: when a step of construction fails (the CSV source does not parse, the
\* database does not open, the strategy name is outside AgentType) the
\* caller gets an error and nothing else: no field of an executor is set, no
\* run and no acall can start.
C5_FailedConstructionReturnsNothing ==
    (Constructed /\ ConstructionFails(resolved.cls, cfg))
        => /\ result.kind = "Error"
           /\ result.error # ""
           /\ result = Raise(result.error)
           /\ state = "Idle"
           /\ acallResult = <<>>

C5_Witness ==
    /\ Constructed
    /\ resolved.cls = "CSVAgent"
    /\ ~cfg.csvOk
    /\ result.kind = "Error"

CheckerStep(q) == [kind |-> "tool", tool |-> "query_checker_sql_db", input |-> q]

QueryStep(q) == [kind |-> "tool", tool |-> "query_sql_db", input |-> q]

C8_UnknownToolRecovered ==
    (IsExecutor /\ lastStep.kind = "tool" /\ lastStep.tool \notin result.allowed_tools)
        => /\ invoked = "none"
           /\ state \in {"Running", "StoppedByLimit"}

C8_Witness ==
    /\ IsExecutor
    /\ lastStep.kind = "tool"
    /\ lastStep.tool = "no_such_tool"
    /\ state = "Running"
    /\ iterations >= 1

\* C9: the acall of the autonomous-loop agent returns an answer and an empty
\* sequence of steps.
C9_AnswerAndEmptySteps ==
    \A i \in 1..Len(acallResult) :
        /\ "answer" \in DOMAIN acallResult[i]
        /\ "intermediate_steps" \in DOMAIN acallResult[i]
        /\ acallResult[i].intermediate_steps = <<>>

\* C10: the keys of the table are pairwise distinct and each key is the
\* function_name() of the class registered under it, in every state.
C10_KeysUniqueAndSelfDescribed ==
    \A i, j \in 1..Len(registry) :
        /\ i # j => registry[i].key # registry[j].key
        /\ registry[i].key = function_name(registry[i].cls)

C10_Witness ==
    /\ registry = CUSTOM_AGENTS
    /\ resolved.kind = "Recipe"
    /\ resolved.key = "AgentInitializer"
    /\ result.kind = "AgentExecutor"

====
